---- MODULE Spec2Model ----
(***************************************************************************)
(* ProductViz: a GitHub repository analytics dashboard.                    *)
(*                                                                         *)
(* The module models, from the TypeScript sources,                         *)
(*   - the health scorer calculateHealthScore (newer dashboard),           *)
(*   - the derived-metric projections (language distribution, commit       *)
(*     activity window, issue statistics) of both dashboards,              *)
(*   - the comparator prepareComparisonData,                               *)
(*   - the backend aggregator GitHubService.getFullAnalytics with its      *)
(*     read-through cache, the route handler and the errorHandler,         *)
(*   - the dashboard's request handling (handleAnalyze/analyzeRepository). *)
(*                                                                         *)
(* JavaScript numbers are modelled as exact rationals <<n, d>> (d > 0) and *)
(* NaN as <<0, 0>>; timestamps and the clock are counted in whole days.    *)
(* JavaScript values whose type the code inspects are pairs                *)
(* <<typeof, payload>>.                                                    *)
(***************************************************************************)
EXTENDS Integers, Sequences, FiniteSets, TLC

VARIABLES
    \* --- pure-function harness (health scorer, derived metrics) ---
    data,       \* the RepoAnalytics snapshot handed to the functions
    now,        \* the ambient clock Date.now(), in days since the epoch
    calls,      \* the results of the calls made so far, oldest first
    \* --- backend: GitHubService + route + errorHandler ---
    cache,      \* NodeCache: cache key -> <<>> (absent) or <<value>>
    fetch,      \* per resource kind, the state of the getX promise
    sub,        \* the two axios requests of getIssues (open, closed)
    agg,        \* the Promise.all of getFullAnalytics
    response,   \* <<>> or <<the HTTP response of the current request>>
    \* --- dashboard (React state of the newer ProductViz component) ---
    viewMode, repoUrl, repoUrl2, analytics, analytics2, loading, error,
    inv,        \* the handleAnalyze invocations still under way, oldest first
    latest      \* history: about the most recently started invocation

pureVars == <<data, now, calls>>
backVars == <<cache, fetch, sub, agg, response>>
uiVars   == <<viewMode, repoUrl, repoUrl2, analytics, analytics2, loading, error, inv, latest>>
vars     == <<data, now, calls, cache, fetch, sub, agg, response,
             viewMode, repoUrl, repoUrl2, analytics, analytics2, loading, error, inv, latest>>

(***************************************************************************)
(* JavaScript numbers: exact rationals, NaN = <<0, 0>>.                    *)
(***************************************************************************)
RECURSIVE GCD(_, _)
GCD(a, b) == IF b = 0 THEN a ELSE GCD(b, a % b)

Abs(n) == IF n < 0 THEN -n ELSE n

NaN == <<0, 0>>
IsNaN(x) == x[2] = 0
Num(n) == <<n, 1>>

\* n/d in lowest terms with a positive denominator (d # 0)
Frac(n, d) ==
    LET g == GCD(Abs(n), Abs(d))
        s == IF d < 0 THEN -1 ELSE 1
    IN  <<(s * n) \div g, (s * d) \div g>>

Add(x, y) == IF IsNaN(x) \/ IsNaN(y) THEN NaN
             ELSE Frac(x[1] * y[2] + y[1] * x[2], x[2] * y[2])
Sub(x, y) == IF IsNaN(x) \/ IsNaN(y) THEN NaN
             ELSE Frac(x[1] * y[2] - y[1] * x[2], x[2] * y[2])
Mul(x, y) == IF IsNaN(x) \/ IsNaN(y) THEN NaN
             ELSE Frac(x[1] * y[1], x[2] * y[2])
\* x / k for a non-zero integer literal k
DivBy(x, k) == IF IsNaN(x) THEN NaN ELSE Frac(x[1], x[2] * k)

\* x < y and x >= y; every comparison with NaN is false
Lt(x, y) == ~IsNaN(x) /\ ~IsNaN(y) /\ x[1] * y[2] < y[1] * x[2]
Ge(x, y) == ~IsNaN(x) /\ ~IsNaN(y) /\ x[1] * y[2] >= y[1] * x[2]

MathMin(x, y) == IF IsNaN(x) \/ IsNaN(y) THEN NaN ELSE IF Lt(y, x) THEN y ELSE x
MathMax(x, y) == IF IsNaN(x) \/ IsNaN(y) THEN NaN ELSE IF Lt(x, y) THEN y ELSE x
\* Math.round: floor(x + 0.5)
MathRound(x) == IF IsNaN(x) THEN NaN ELSE Num((2 * x[1] + x[2]) \div (2 * x[2]))

(***************************************************************************)
(* JavaScript values.                                                      *)
(***************************************************************************)
Undefined == <<"undefined", 0>>
Null      == <<"null", 0>>
JsNum(n)  == <<"number", n>>
JsStr(len) == <<"string", len>>       \* a string of the given length
JsObj     == <<"object", 1>>
TypeOf(v) == v[1]
\* ToBoolean: undefined, null, 0 and '' are falsy
Truthy(v) ==
    CASE v[1] \in {"undefined", "null"} -> FALSE
      [] v[1] \in {"number", "string"}  -> v[2] # 0
      [] OTHER                          -> TRUE

\* a collection field of the snapshot: an array, or null/undefined/an object
Arr(s)      == [kind |-> "array", items |-> s]
NotArr(k)   == [kind |-> k, items |-> <<>>]
\* an object used as a map: its entries <<key, value>> in Object.entries order
Obj(entries) == [kind |-> "object", items |-> entries]
IsArray(c)  == c.kind = "array"
Present(c)  == c.kind \notin {"null", "undefined"}

\* Array.prototype.slice(-n)
SliceLast(s, n) == SubSeq(s, IF Len(s) > n THEN Len(s) - n + 1 ELSE 1, Len(s))
\* Array.prototype.slice(0, n)
SliceFirst(s, n) == SubSeq(s, 1, IF Len(s) > n THEN n ELSE Len(s))

RECURSIVE SumSeq(_)
SumSeq(s) == IF s = <<>> THEN 0 ELSE s[1] + SumSeq(Tail(s))

\* new Date(v).getTime() in days: an ISO date string parses to its day,
\* null converts to the epoch, anything else is an Invalid Date (NaN)
DateGetTime(v) ==
    CASE v[1] = "isodate" -> Num(v[2])
      [] v[1] = "null"    -> Num(0)
      [] OTHER            -> NaN
IsoDate(day) == <<"isodate", day>>

(***************************************************************************)
(* Health scorer: calculateHealthScore(data), reading the clock Date.now(). *)
(***************************************************************************)
\* data.commitActivity.slice(-4).filter(week => week && typeof week.total
\* === 'number').reduce((sum, week) => sum + week.total, 0)
\* a variant of recentCommits that looks for the well-formed records first
\* and adds up the last 4 of them
recentCommitsWellFormed(d) ==
    LET ca   == d.commitActivity
        ok(w) == w.obj /\ TypeOf(w.week) = "number" /\ TypeOf(w.total) = "number"
        kept == SliceLast(SelectSeq(ca.items, ok), 4)
    IN  IF Present(ca) /\ IsArray(ca) /\ Len(ca.items) > 0
        THEN SumSeq([i \in 1..Len(kept) |-> kept[i].total[2]])
        ELSE 0

recentCommitsOf(d) ==
    LET ca   == d.commitActivity
        ok(w) == w.obj /\ TypeOf(w.total) = "number"
        kept == SelectSeq(SliceLast(ca.items, 4), ok)
    IN  IF Present(ca) /\ IsArray(ca) /\ Len(ca.items) > 0
        THEN SumSeq([i \in 1..Len(kept) |-> kept[i].total[2]])
        ELSE 0

activityScoreOf(d) ==
    MathMin(Num(100), Mul(DivBy(Num(recentCommitsOf(d)), 50), Num(100)))

\* data.issues.filter(i => i && i.state === 'closed').length
closedIssuesOf(d) ==
    LET closed(i) == i.obj /\ i.state = <<"string", "closed">>
    IN  IF Present(d.issues) /\ IsArray(d.issues)
        THEN Len(SelectSeq(d.issues.items, closed))
        ELSE 0

\* a variant of the maintenance score that takes the open issues from the
\* fetched issue records
maintenanceScoreFetched(d) ==
    LET closedIssues == closedIssuesOf(d)
        isOpen(i)    == i.obj /\ i.state = <<"string", "open">>
        totalIssues  == Len(SelectSeq(d.issues.items, isOpen)) + closedIssues
        issueRatio   == IF totalIssues > 0 THEN Frac(closedIssues, totalIssues)
                                           ELSE Frac(1, 2)
    IN  Mul(issueRatio, Num(100))

maintenanceScoreOf(d) ==
    LET closedIssues == closedIssuesOf(d)
        totalIssues  == d.repo.open_issues_count + closedIssues
        issueRatio   == IF totalIssues > 0 THEN Frac(closedIssues, totalIssues)
                                           ELSE Frac(1, 2)
    IN  Mul(issueRatio, Num(100))

communityScoreOf(d) ==
    LET contributorCount == IF Present(d.contributors) /\ IsArray(d.contributors)
                            THEN Len(d.contributors.items) ELSE 0
        contributorScore == MathMin(Num(100), Mul(DivBy(Num(contributorCount), 20), Num(100)))
        starScore == MathMin(Num(100), Mul(DivBy(Num(d.repo.stargazers_count), 1000), Num(100)))
    IN  DivBy(Add(contributorScore, starScore), 2)

\* a variant of the documentation score with the two bonuses exchanged
documentationScoreExchanged(d) ==
    Num((IF Truthy(d.repo.description) THEN 30 ELSE 0)
        + (IF Truthy(d.repo.license) THEN 40 ELSE 0)
        + 30)

documentationScoreOf(d) ==
    Num((IF Truthy(d.repo.description) THEN 40 ELSE 0)
        + (IF Truthy(d.repo.license) THEN 30 ELSE 0)
        + 30)

\* ageScore: new Date() never throws, so the catch branch is never taken
ageScoreOf(d, t) ==
    LET createdDate == DateGetTime(d.repo.created_at)
        ageInDays   == Sub(Num(t), createdDate)
    IN  MathMin(Num(100), Mul(DivBy(ageInDays, 365), Num(50)))

freshnessScoreOf(d, t) ==
    LET lastUpdate      == DateGetTime(d.repo.updated_at)
        daysSinceUpdate == Sub(Num(t), lastUpdate)
    IN  MathMax(Num(0), Sub(Num(100), Mul(DivBy(daysSinceUpdate, 30), Num(50))))

stabilityScoreOf(d, t) == DivBy(Add(ageScoreOf(d, t), freshnessScoreOf(d, t)), 2)

\* a variant of the overall score: the plain average of the five sub-scores
overallScoreUnweighted(a, m, c, doc, s) ==
    MathRound(DivBy(Add(Add(Add(Add(a, m), c), doc), s), 5))

\* Math.round(a*0.25 + m*0.25 + c*0.2 + doc*0.15 + s*0.15)
overallScoreOf(a, m, c, doc, s) ==
    MathRound(Add(Add(Add(Add(Mul(a, Frac(1, 4)), Mul(m, Frac(1, 4))),
                          Mul(c, Frac(1, 5))),
                      Mul(doc, Frac(3, 20))),
                  Mul(s, Frac(3, 20))))

\* a variant of the bands whose 'A' band starts at 85
gradeOfLateA(overallScore) ==
    IF Ge(overallScore, Num(90)) THEN <<"A+", "#10B981">>
    ELSE IF Ge(overallScore, Num(85)) THEN <<"A", "#34D399">>
    ELSE IF Ge(overallScore, Num(70)) THEN <<"B", "#FBBF24">>
    ELSE IF Ge(overallScore, Num(60)) THEN <<"C", "#F59E0B">>
    ELSE IF Ge(overallScore, Num(50)) THEN <<"D", "#F97316">>
    ELSE <<"F", "#EF4444">>

gradeOf(overallScore) ==
    IF Ge(overallScore, Num(90)) THEN <<"A+", "#10B981">>
    ELSE IF Ge(overallScore, Num(80)) THEN <<"A", "#34D399">>
    ELSE IF Ge(overallScore, Num(70)) THEN <<"B", "#FBBF24">>
    ELSE IF Ge(overallScore, Num(60)) THEN <<"C", "#F59E0B">>
    ELSE IF Ge(overallScore, Num(50)) THEN <<"D", "#F97316">>
    ELSE <<"F", "#EF4444">>

\* a variant of the recommendations that stops at the first sub-score below
\* its threshold
recommendationsFirstOnly(a, m, c, doc, s) ==
    IF Lt(a, Num(50)) THEN <<"Increase commit frequency to show active development">>
    ELSE IF Lt(m, Num(60)) THEN <<"Address open issues to improve maintenance score">>
    ELSE IF Lt(c, Num(50)) THEN <<"Encourage more contributors and engagement">>
    ELSE IF Lt(doc, Num(70)) THEN <<"Improve documentation with detailed README and proper license">>
    ELSE IF Lt(s, Num(60)) THEN <<"Update repository more regularly to maintain stability">>
    ELSE <<>>

recommendationsOf(a, m, c, doc, s) ==
    (IF Lt(a, Num(50)) THEN <<"Increase commit frequency to show active development">> ELSE <<>>)
    \o (IF Lt(m, Num(60)) THEN <<"Address open issues to improve maintenance score">> ELSE <<>>)
    \o (IF Lt(c, Num(50)) THEN <<"Encourage more contributors and engagement">> ELSE <<>>)
    \o (IF Lt(doc, Num(70)) THEN <<"Improve documentation with detailed README and proper license">> ELSE <<>>)
    \o (IF Lt(s, Num(60)) THEN <<"Update repository more regularly to maintain stability">> ELSE <<>>)

calculateHealthScore(d, t) ==
    LET a   == activityScoreOf(d)
        m   == maintenanceScoreOf(d)
        c   == communityScoreOf(d)
        doc == documentationScoreOf(d)
        s   == stabilityScoreOf(d, t)
        overallScore == overallScoreOf(a, m, c, doc, s)
        g   == gradeOf(overallScore)
    IN  [score |-> overallScore, grade |-> g[1], color |-> g[2],
         metrics |-> [activity |-> MathRound(a), maintenance |-> MathRound(m),
                      community |-> MathRound(c), documentation |-> MathRound(doc),
                      stability |-> MathRound(s)],
         recommendations |-> recommendationsOf(a, m, c, doc, s)]


(***************************************************************************)
(* Derived metrics: the helpers of the earlier dashboard and the inline    *)
(* computations of the newer dashboard's single view.                      *)
(***************************************************************************)
\* .sort((a, b) => b.value - a.value): descending by value, stable
RECURSIVE InsertDesc(_, _)
InsertDesc(x, s) ==
    IF s = <<>> THEN <<x>>
    ELSE IF s[1].value >= x.value THEN <<s[1]>> \o InsertDesc(x, Tail(s))
    ELSE <<x>> \o s

RECURSIVE SortDesc(_)
SortDesc(s) ==
    IF s = <<>> THEN <<>>
    ELSE InsertDesc(s[Len(s)], SortDesc(SubSeq(s, 1, Len(s) - 1)))

\* a variant of toFixed(1) that cuts the digits after the first decimal
ToFixed1Truncating(x) == (10 * x[1]) \div x[2]

\* x.toFixed(1) for x >= 0: the decimal string with one digit after the
\* point nearest to x (the larger one on a tie), given as its tenths:
\* 167 stands for "16.7"
ToFixed1(x) == (2 * 10 * x[1] + x[2]) \div (2 * x[2])

\* the entries of the colour table for the languages of the inputs
getLanguageColors ==
    [n \in {"JavaScript", "TypeScript", "Python", "Java", "Go", "Rust"} |->
        CASE n = "JavaScript" -> "#f1e05a"
          [] n = "TypeScript" -> "#2b7489"
          [] n = "Python"     -> "#3572A5"
          [] n = "Java"       -> "#b07219"
          [] n = "Go"         -> "#00ADD8"
          [] n = "Rust"       -> "#dea584"]
\* colors[lang] || '#8884d8'
ColorOf(lang) ==
    IF lang \in DOMAIN getLanguageColors THEN getLanguageColors[lang] ELSE "#8884d8"

\* Object.values(languages).reduce((sum, bytes) => sum + bytes, 0)
LanguageTotal(entries) == SumSeq([i \in 1..Len(entries) |-> entries[i][2]])

\* a variant of the rows that keeps the first 6 entries before ordering them
LanguageRowsCutFirst(entries) ==
    LET total   == LanguageTotal(entries)
        pos(e)  == e[2] > 0
        kept    == SelectSeq(entries, pos)
        rows    == [i \in 1..Len(kept) |->
                      [name |-> kept[i][1], value |-> kept[i][2],
                       percentage |-> ToFixed1(Mul(Frac(kept[i][2], total), Num(100))),
                       color |-> ColorOf(kept[i][1])]]
    IN  SortDesc(SliceFirst(rows, 6))

LanguageRows(entries) ==
    LET total   == LanguageTotal(entries)
        pos(e)  == e[2] > 0
        kept    == SelectSeq(entries, pos)
        rows    == [i \in 1..Len(kept) |->
                      [name |-> kept[i][1], value |-> kept[i][2],
                       percentage |-> ToFixed1(Mul(Frac(kept[i][2], total), Num(100))),
                       color |-> ColorOf(kept[i][1])]]
    IN  SliceFirst(SortDesc(rows), 6)

\* earlier dashboard
prepareLanguageData(d) ==
    IF ~Present(d.languages) \/ Len(d.languages.items) = 0 THEN <<>>
    ELSE IF LanguageTotal(d.languages.items) = 0 THEN <<>>
    ELSE LanguageRows(d.languages.items)

\* newer dashboard, single view
langData(d) ==
    IF Present(d.languages) /\ Len(d.languages.items) > 0
    THEN LanguageRows(d.languages.items)
    ELSE <<>>

\* new Date(week * 1000).toLocaleDateString(): the calendar day of the
\* timestamp (week * 1000 ms = week s), given as its day number (86400 s a day)
LocaleDate(week) == week \div 86400

\* a variant of the window without Math.max(0, ...)
CommitWindowUnclamped(items) ==
    LET ok(w) == w.obj /\ TypeOf(w.week) = "number" /\ TypeOf(w.total) = "number"
        kept  == SelectSeq(items, ok)
        rows  == [i \in 1..Len(kept) |->
                    [week |-> <<"Week", i>>,
                     commits |-> kept[i].total[2],
                     date |-> LocaleDate(kept[i].week[2])]]
    IN  SliceLast(rows, 12)

\* .filter(week && typeof week.week === 'number' && typeof week.total ===
\* 'number').map((week, index) => ...).slice(-12)
CommitWindow(items) ==
    LET ok(w) == w.obj /\ TypeOf(w.week) = "number" /\ TypeOf(w.total) = "number"
        kept  == SelectSeq(items, ok)
        rows  == [i \in 1..Len(kept) |->
                    [week |-> <<"Week", i>>,
                     commits |-> IF kept[i].total[2] < 0 THEN 0 ELSE kept[i].total[2],
                     date |-> LocaleDate(kept[i].week[2])]]
    IN  SliceLast(rows, 12)

\* earlier dashboard
prepareCommitActivityData(d) ==
    IF ~Present(d.commitActivity) \/ ~IsArray(d.commitActivity) THEN <<>>
    ELSE CommitWindow(d.commitActivity.items)

\* newer dashboard, single view
commitData(d) ==
    IF Present(d.commitActivity) /\ IsArray(d.commitActivity)
    THEN CommitWindow(d.commitActivity.items)
    ELSE <<>>

\* earlier dashboard: only issues whose state is a string are looked at,
\* and total = open + closed
getIssueStats(d) ==
    IF ~Present(d.issues) \/ ~IsArray(d.issues) THEN [open |-> 0, closed |-> 0, total |-> 0]
    ELSE LET valid(i)  == i.obj /\ TypeOf(i.state) = "string"
             isOpen(i) == i.state = <<"string", "open">>
             isClosed(i) == i.state = <<"string", "closed">>
             validIssues == SelectSeq(d.issues.items, valid)
             open   == Len(SelectSeq(validIssues, isOpen))
             closed == Len(SelectSeq(validIssues, isClosed))
         IN  [open |-> open, closed |-> closed, total |-> open + closed]

\* i.state as a condition: a non-empty string, or any other truthy value
StateTruthy(st) ==
    CASE st[1] = "string" -> st[2] # ""
      [] st[1] = "number" -> st[2] # 0
      [] st[1] \in {"undefined", "null"} -> FALSE
      [] OTHER -> TRUE

\* newer dashboard, single view: total counts every issue with a truthy state
issueStats(d) ==
    IF Present(d.issues) /\ IsArray(d.issues)
    THEN LET isOpen(i)   == i.obj /\ i.state = <<"string", "open">>
             isClosed(i) == i.obj /\ i.state = <<"string", "closed">>
             hasState(i) == i.obj /\ StateTruthy(i.state)
         IN  [open |-> Len(SelectSeq(d.issues.items, isOpen)),
              closed |-> Len(SelectSeq(d.issues.items, isClosed)),
              total |-> Len(SelectSeq(d.issues.items, hasState))]
    ELSE [open |-> 0, closed |-> 0, total |-> 0]

\* the keys of an object in Object.entries order: the keys that are array
\* indices ("0", "1", "2", ...) first, in ascending numeric order, then the
\* other keys in the order in which they were first set.  ArrayIndex gives
\* the number a key denotes, -1 if it is not an array index
ArrayIndex(key) ==
    CASE key = "2"  -> 2
      [] key = "10" -> 10
      [] OTHER      -> -1

RECURSIVE FirstSet(_)
FirstSet(keys) ==
    IF keys = <<>> THEN <<>>
    ELSE LET k    == keys[Len(keys)]
             init == SubSeq(keys, 1, Len(keys) - 1)
         IN  IF \E i \in 1..Len(init) : init[i] = k THEN FirstSet(init)
             ELSE Append(FirstSet(init), k)

RECURSIVE AscendingIndices(_)
AscendingIndices(keys) ==
    IF keys = {} THEN <<>>
    ELSE LET k == CHOOSE x \in keys : \A y \in keys : ArrayIndex(x) <= ArrayIndex(y)
         IN  <<k>> \o AscendingIndices(keys \ {k})

ObjectKeys(keysAsSet) ==
    LET isIndex(k) == ArrayIndex(k) >= 0
        isName(k)  == ArrayIndex(k) < 0
        first      == FirstSet(keysAsSet)
    IN  AscendingIndices({first[i] : i \in {i \in 1..Len(first) : isIndex(first[i])}})
        \o SelectSeq(first, isName)

\* the names counted: for every issue with an array of labels, in order,
\* the name of every label that has a non-empty one
RECURSIVE LabelNames(_)
LabelNames(items) ==
    IF items = <<>> THEN <<>>
    ELSE LET issue   == items[1]
             named(l) == l.obj /\ TypeOf(l.name) = "string" /\ l.name[2] # ""
             own     == IF issue.obj /\ IsArray(issue.labels)
                        THEN SelectSeq(issue.labels.items, named) ELSE <<>>
         IN  [i \in 1..Len(own) |-> own[i].name[2]] \o LabelNames(Tail(items))

\* .sort((a, b) => b.count - a.count): descending by count, stable
RECURSIVE InsertByCount(_, _)
InsertByCount(x, s) ==
    IF s = <<>> THEN <<x>>
    ELSE IF s[1].count >= x.count THEN <<s[1]>> \o InsertByCount(x, Tail(s))
    ELSE <<x>> \o s

RECURSIVE SortByCount(_)
SortByCount(s) ==
    IF s = <<>> THEN <<>>
    ELSE InsertByCount(s[Len(s)], SortByCount(SubSeq(s, 1, Len(s) - 1)))

\* Object.entries(labelCount).map(...).sort(...).slice(0, 5)
LabelTable(items) ==
    LET names == LabelNames(items)
        keys  == ObjectKeys(names)
        rows  == [i \in 1..Len(keys) |->
                    [name |-> keys[i],
                     count |-> Cardinality({j \in 1..Len(names) : names[j] = keys[i]})]]
    IN  SliceFirst(SortByCount(rows), 5)

\* earlier dashboard
getTopLabels(d) ==
    IF ~Present(d.issues) \/ ~IsArray(d.issues) THEN <<>>
    ELSE LabelTable(d.issues.items)

\* newer dashboard, single view
topLabels(d) ==
    IF Present(d.issues) /\ IsArray(d.issues) THEN LabelTable(d.issues.items) ELSE <<>>

(***************************************************************************)
(* Comparator: prepareComparisonData() of the newer dashboard, as a        *)
(* function of the two snapshot slots (<<>> for null).  Reading .length of *)
(* a contributors field that is null or undefined throws a TypeError; of   *)
(* an array or a string it is the number of elements or characters.        *)
(***************************************************************************)
compareRows(slot1, slot2) ==
    IF slot1 = <<>> \/ slot2 = <<>> THEN [threw |-> FALSE, rows |-> <<>>]
    ELSE LET a == slot1[1]
             b == slot2[1]
         IN  IF ~Present(a.contributors) \/ ~Present(b.contributors)
             THEN [threw |-> TRUE, rows |-> <<>>]
             ELSE [threw |-> FALSE,
                   rows |->
                     << [metric |-> "Stars", repo1 |-> a.repo.stargazers_count, repo2 |-> b.repo.stargazers_count],
                        [metric |-> "Forks", repo1 |-> a.repo.forks_count, repo2 |-> b.repo.forks_count],
                        [metric |-> "Contributors", repo1 |-> Len(a.contributors.items), repo2 |-> Len(b.contributors.items)],
                        [metric |-> "Open Issues", repo1 |-> a.repo.open_issues_count, repo2 |-> b.repo.open_issues_count],
                        [metric |-> "Watchers", repo1 |-> a.repo.watchers_count, repo2 |-> b.repo.watchers_count] >>]

(***************************************************************************)
(* Snapshots the pure functions are applied to.                            *)
(***************************************************************************)
\* the clock when the snapshot under inspection was fetched (days)
Now0 == 20000
\* how many days the clock may advance, and how many calls are made
MaxTicks == 2
MaxCalls == 2

WeekRec(w, t) == [obj |-> TRUE, week |-> w, total |-> t]
\* a label of an issue; a null entry of a labels array has obj = FALSE
LabelRec(name) == [obj |-> TRUE, name |-> name]
IssueRec(state, labels) == [obj |-> TRUE, state |-> state, labels |-> labels]

\* well-formed weekly buckets with the given totals, one week (604800 s) apart
Weeks(totals) ==
    Arr([i \in 1..Len(totals) |-> WeekRec(JsNum(i * 604800), JsNum(totals[i]))])
\* nOpen open issues followed by nClosed closed ones, as getIssues returns them
Issues(nOpen, nClosed) ==
    Arr([i \in 1..(nOpen + nClosed) |->
            IssueRec(<<"string", IF i <= nOpen THEN "open" ELSE "closed">>, Arr(<<>>))])
Contributors(n) == Arr([i \in 1..n |-> i])

RepoRec(stars, forks, watchers, openIssues, description, license, created, updated) ==
    [stargazers_count |-> stars, forks_count |-> forks, watchers_count |-> watchers,
     open_issues_count |-> openIssues, description |-> description,
     license |-> license, created_at |-> created, updated_at |-> updated]

Snapshot(repo, contributors, issues, commitActivity, languages) ==
    [repo |-> repo, contributors |-> contributors, issues |-> issues,
     commitActivity |-> commitActivity, languages |-> languages]

EmptyRepo == RepoRec(0, 0, 0, 0, Null, Null, IsoDate(Now0), IsoDate(Now0))
EmptySnapshot == Snapshot(EmptyRepo, Arr(<<>>), Arr(<<>>), Arr(<<>>), Obj(<<>>))

\* Scenario A of the specification
ScenarioA ==
    Snapshot(RepoRec(1500, 300, 1500, 10, JsStr(11), JsObj,
                     IsoDate(Now0 - 730), IsoDate(Now0 - 1)),
             Contributors(25), Issues(10, 40), Weeks(<<10, 20, 15, 25>>), Obj(<<>>))

\* inputs of the health scorer: <<contributors, stars>>, <<open_issues_count,
\* fetched open, fetched closed>>, weekly totals, description/license, and
\* the age of the two timestamps in days (negative: ahead of the clock)
HealthCommunity == {<<0, 0>>, <<9, 499>>, <<25, 1500>>}
HealthIssues    == {<<0, 2, 0>>, <<5, 1, 3>>, <<10, 10, 40>>}
HealthWeeks     == {<<>>, <<25>>, <<40, 6, 6, 6, 6>>, <<10, 20, 15, 25>>}
HealthDocs      == {<<Null, Null>>, <<JsStr(0), JsObj>>, <<JsStr(11), Null>>, <<JsStr(11), JsObj>>}
HealthCreated   == {-1000, 0, 140, 730}
HealthUpdated   == {-4, 0, 1, 45, 90}

HealthInputs ==
    { Snapshot(RepoRec(c[2], 300, c[2], i[1], doc[1], doc[2],
                       IsoDate(Now0 - cr), IsoDate(Now0 - up)),
               Contributors(c[1]), Issues(i[2], i[3]), Weeks(w), Obj(<<>>))
      : c \in HealthCommunity, i \in HealthIssues, w \in HealthWeeks,
        doc \in HealthDocs, cr \in HealthCreated, up \in HealthUpdated }


(***************************************************************************)
(* Initial values of the three parts of the state.                         *)
(***************************************************************************)
Kinds == {"repo", "contributors", "commits", "issues", "activity", "languages"}
IssueStates == {"open", "closed"}

\* new NodeCache(): empty; no request taken yet
BackInit ==
    /\ cache = [k \in Kinds |-> <<>>]
    /\ fetch = [k \in Kinds |-> [st |-> "idle", val |-> <<>>]]
    /\ sub = [s \in IssueStates |-> "idle"]
    /\ agg = [st |-> "idle", error |-> <<>>]
    /\ response = <<>>

\* the useState initial values of the component
UiInit ==
    /\ viewMode = "single"
    /\ repoUrl = ""
    /\ repoUrl2 = ""
    /\ analytics = <<>>
    /\ analytics2 = <<>>
    /\ loading = FALSE
    /\ error = ""
    /\ inv = <<>>
    /\ latest = [active |-> FALSE, had |-> <<FALSE, FALSE>>]

PureInit ==
    /\ data = EmptySnapshot
    /\ now = Now0
    /\ calls = <<>>

(***************************************************************************)
(* The health view: every render of the health view, and the JSON export,  *)
(* call calculateHealthScore on the stored snapshot; the clock advances    *)
(* between calls.                                                          *)
(***************************************************************************)
InitHealth ==
    /\ data \in HealthInputs
    /\ now = Now0
    /\ calls = <<>>
    /\ BackInit
    /\ UiInit

RenderHealth ==
    /\ Len(calls) < MaxCalls
    /\ calls' = Append(calls, [at |-> now, out |-> calculateHealthScore(data, now)])
    /\ UNCHANGED <<data, now>>
    /\ UNCHANGED backVars
    /\ UNCHANGED uiVars

ClockTick ==
    /\ now < Now0 + MaxTicks
    /\ now' = now + 1
    /\ UNCHANGED <<data, calls>>
    /\ UNCHANGED backVars
    /\ UNCHANGED uiVars

NextHealth == RenderHealth \/ ClockTick

SpecHealth == InitHealth /\ [][NextHealth]_vars


(***************************************************************************)
(* The derived metrics applied to snapshots: the helpers of the earlier    *)
(* dashboard and the inline computations of the newer one's single view.   *)
(***************************************************************************)
MaxBytes  == 2
MaxShort  == 3
MaxWeeks  == 13
MaxIssues == 4
MaxLabels == 3

LanguageNames == <<"TypeScript", "JavaScript", "Python", "Java", "Go", "Rust", "Zig">>
LanguageInputs ==
    { Snapshot(EmptyRepo, Arr(<<>>), Arr(<<>>), Arr(<<>>),
               Obj([i \in 1..Len(LanguageNames) |-> <<LanguageNames[i], b[i]>>])) :
        b \in [1..Len(LanguageNames) -> 0..MaxBytes] }

\* a weekly bucket at position i: well-formed, with a negative total, with a
\* non-numeric week, with a non-numeric total, or a null entry
EntryKinds == {"ok", "negative", "badweek", "badtotal", "null"}
WeekEntry(i, k) ==
    CASE k = "ok"       -> WeekRec(JsNum(i * 604800), JsNum(i))
      [] k = "negative" -> WeekRec(JsNum(i * 604800), JsNum(-i))
      [] k = "badweek"  -> WeekRec(JsStr(3), JsNum(i))
      [] k = "badtotal" -> WeekRec(JsNum(i * 604800), Null)
      [] k = "null"     -> [obj |-> FALSE, week |-> Undefined, total |-> Undefined]
ShortWeekLists ==
    UNION { { [i \in 1..n |-> WeekEntry(i, ks[i])] : ks \in [1..n -> EntryKinds] } :
            n \in 0..MaxShort }
LongWeekLists ==
    UNION { { [i \in 1..n |-> WeekEntry(i, IF i = p THEN kp ELSE IF i = q THEN kq ELSE "ok")] :
                p \in 1..n, q \in 1..n, kp \in EntryKinds, kq \in EntryKinds } :
            n \in 12..MaxWeeks }
CommitInputs ==
    { Snapshot(EmptyRepo, Arr(<<>>), Arr(<<>>), Arr(l), Obj(<<>>)) :
        l \in ShortWeekLists \cup LongWeekLists }

\* an issue record: open, closed, of another state, without a state, or null
IssueKinds == {"open", "closed", "merged", "nostate", "null"}
IssueEntry(k) ==
    CASE k \in {"open", "closed", "merged"} -> IssueRec(<<"string", k>>, Arr(<<>>))
      [] k = "nostate" -> IssueRec(Undefined, Arr(<<>>))
      [] k = "null"    -> [obj |-> FALSE, state |-> Undefined, labels |-> NotArr("undefined")]
IssueLists ==
    UNION { { [i \in 1..n |-> IssueEntry(ks[i])] : ks \in [1..n -> IssueKinds] } :
            n \in 0..MaxIssues }
IssueInputs ==
    { Snapshot(EmptyRepo, Arr(<<>>), Arr(l), Arr(<<>>), Obj(<<>>)) : l \in IssueLists }

\* label occurrences, two to an issue: a label name, a label without a name
\* or a null entry; short sequences of any kind, and six different labels
\* followed by a short sequence
LabelKinds == {"bug", "Bug", "docs", "2", "10", "noname", "null"}
LabelEntry(k) ==
    CASE k = "noname" -> LabelRec(Undefined)
      [] k = "null"   -> [obj |-> FALSE, name |-> Undefined]
      [] OTHER        -> LabelRec(<<"string", k>>)
SixLabels == <<"bug", "2", "docs", "10", "Bug", "ui">>
LabelSeqs ==
    LET short(n) == UNION { [1..m -> LabelKinds] : m \in 0..n }
    IN  short(MaxLabels) \cup { SixLabels \o t : t \in short(MaxLabels - 1) }
\* the issues carrying the label occurrences ks, and an issue whose labels
\* are not an array
LabelledIssues(ks) ==
    [i \in 1..((Len(ks) + 1) \div 2) |->
        IssueRec(<<"string", "open">>,
                 Arr([j \in 1..(IF 2 * i <= Len(ks) THEN 2 ELSE 1) |->
                        LabelEntry(ks[2 * (i - 1) + j])]))]
    \o <<IssueRec(<<"string", "closed">>, NotArr("undefined"))>>
LabelInputs ==
    { Snapshot(EmptyRepo, Arr(<<>>), Arr(LabelledIssues(ks)), Arr(<<>>), Obj(<<>>)) :
        ks \in LabelSeqs }

MetricInputs == LanguageInputs \cup CommitInputs \cup IssueInputs \cup LabelInputs

InitMetrics ==
    /\ data \in MetricInputs
    /\ now = Now0
    /\ calls = <<>>
    /\ BackInit
    /\ UiInit

Rendered(view) == \E i \in 1..Len(calls) : calls[i].out.view = view
\* a view is rendered once; the two dashboards' charts of one snapshot may
\* both be rendered, in either order
CanRender(view) ==
    /\ ~Rendered(view)
    /\ ~Rendered("health")
    /\ ~Rendered("compare")
    /\ view \in {"health", "compare"} => calls = <<>>

\* the earlier dashboard renders its charts
RenderHelpers ==
    /\ CanRender("helpers")
    /\ calls' = Append(calls,
                  [at |-> now,
                   out |-> [view |-> "helpers",
                            languages |-> prepareLanguageData(data),
                            commits |-> prepareCommitActivityData(data),
                            issues |-> getIssueStats(data),
                            labels |-> getTopLabels(data)]])
    /\ UNCHANGED <<data, now>>
    /\ UNCHANGED backVars
    /\ UNCHANGED uiVars

\* the newer dashboard renders its single view
RenderSingle ==
    /\ CanRender("single")
    /\ calls' = Append(calls,
                  [at |-> now,
                   out |-> [view |-> "single",
                            languages |-> langData(data),
                            commits |-> commitData(data),
                            issues |-> issueStats(data),
                            labels |-> topLabels(data)]])
    /\ UNCHANGED <<data, now>>
    /\ UNCHANGED backVars
    /\ UNCHANGED uiVars

NextMetrics == RenderHelpers \/ RenderSingle

SpecMetrics == InitMetrics /\ [][NextMetrics]_vars

(***************************************************************************)
(* The scorer, the derived metrics and the comparator applied to snapshots *)
(* whose optional and collection fields are missing, null or of another    *)
(* shape, and to commit-activity lists with malformed records.             *)
(***************************************************************************)
\* a field that should hold a collection: as expected, null, missing, or
\* (an empty body of the upstream answer) the empty string
DefaultContributors == {Contributors(3), NotArr("null"), NotArr("undefined"), NotArr("string")}
DefaultIssues       == {Arr(LabelledIssues(<<"bug">>)), NotArr("null"), NotArr("string")}
DefaultLanguages    == {Obj(<<<<"Go", 1>>>>), NotArr("null"), NotArr("string")}
DefaultActivity     == {Weeks(<<30, 30>>), NotArr("null"), NotArr("undefined"), NotArr("string")}
DefaultDocs         == {JsStr(11), Null, Undefined} \X {JsObj, Undefined}
\* a timestamp: a date, null, missing, or a string that is not a date
DefaultDates        == {IsoDate(Now0 - 730), Null, Undefined, JsStr(7)}

FieldInputs ==
    { Snapshot(RepoRec(1500, 300, 80, 10, doc[1], doc[2], cr, up), c, i, w, l) :
        c \in DefaultContributors, i \in DefaultIssues, w \in DefaultActivity,
        l \in DefaultLanguages, doc \in DefaultDocs,
        cr \in DefaultDates, up \in DefaultDates }

\* commit-activity lists around the threshold of 50, with more than 4 weeks,
\* and with records that lack a numeric week or total
ActivityLists ==
    { Weeks(<<25, 24>>).items, Weeks(<<25, 25>>).items, Weeks(<<100, 1, 1, 1, 1>>).items,
      <<WeekRec(JsStr(3), JsNum(60))>>,
      <<WeekRec(JsNum(604800), JsNum(30)), WeekRec(JsNum(1209600), Null),
        WeekRec(JsNum(1814400), JsNum(30))>>,
      <<WeekEntry(1, "null"), WeekRec(JsNum(1209600), Undefined)>> }
ActivityInputs ==
    { Snapshot(RepoRec(1500, 300, 80, 10, JsStr(11), JsObj, IsoDate(Now0 - 730), IsoDate(Now0 - 1)),
               Contributors(3), Arr(<<>>), Arr(l), Obj(<<>>)) :
        l \in ActivityLists \cup ShortWeekLists \cup LongWeekLists }

InitDefaults ==
    /\ data \in FieldInputs \cup ActivityInputs
    /\ now = Now0
    /\ calls = <<>>
    /\ BackInit
    /\ UiInit

\* the health view
RenderHealthView ==
    /\ CanRender("health")
    /\ calls' = Append(calls, [at |-> now,
                               out |-> [view |-> "health",
                                        health |-> calculateHealthScore(data, now)]])
    /\ UNCHANGED <<data, now>>
    /\ UNCHANGED backVars
    /\ UNCHANGED uiVars

\* the comparison view, the snapshot in the first slot and Scenario A's in
\* the second
RenderComparison ==
    /\ CanRender("compare")
    /\ calls' = Append(calls, [at |-> now,
                               out |-> [view |-> "compare",
                                        result |-> compareRows(<<data>>, <<ScenarioA>>)]])
    /\ UNCHANGED <<data, now>>
    /\ UNCHANGED backVars
    /\ UNCHANGED uiVars

NextDefaults ==
    \/ RenderHelpers
    \/ RenderSingle
    \/ RenderHealthView
    \/ RenderComparison

SpecDefaults == InitDefaults /\ [][NextDefaults]_vars


(***************************************************************************)
(* The grade and colour bands of calculateHealthScore, applied to every    *)
(* overall score.                                                          *)
(***************************************************************************)
MaxScore == 100

InitGrade ==
    /\ data \in { [overallScore |-> Num(n)] : n \in 0..MaxScore }
    /\ now = Now0
    /\ calls = <<>>
    /\ BackInit
    /\ UiInit

\* the grade and colour part of calculateHealthScore
GradeScore ==
    /\ calls = <<>>
    /\ LET g == gradeOf(data.overallScore)
       IN  calls' = <<[at |-> now,
                       out |-> [score |-> data.overallScore, grade |-> g[1], color |-> g[2]]]>>
    /\ UNCHANGED <<data, now>>
    /\ UNCHANGED backVars
    /\ UNCHANGED uiVars

NextGrade == GradeScore

SpecGrade == InitGrade /\ [][NextGrade]_vars


(***************************************************************************)
(* Backend: GitHubService (read-through cache, six fetches, Promise.all),  *)
(* the /analyze and /analyze-url routes and the errorHandler middleware,   *)
(* for one repository.                                                     *)
(* A request is taken once every upstream call of the previous request has *)
(* settled.  Each upstream response is handled in one step: the promise    *)
(* reactions it triggers run to completion before the next response.       *)
(***************************************************************************)
\* HTTP statuses an upstream call may fail with; 0 is a failure without a
\* response (network error)
UpstreamFailures == {404, 403, 0}

\* the payload upstream returns for a resource
UpstreamData(k) == <<k>>
\* the payload of an answer without a body (204 No Content, which GitHub
\* gives for the contributors and the statistics of an empty repository):
\* axios hands over the empty string
EmptyBody == <<>>
EmptyBodyKinds == {"contributors", "activity"}
\* const cached = this.cache.get(cacheKey); if (cached) return cached;
CacheHit(c, k) == c[k] # <<>> /\ c[k][1] # EmptyBody
\* [...openIssues.data, ...closedIssues.data]
AllIssues == <<"issues?state=open">> \o <<"issues?state=closed">>

\* the error axios rejects with
AxiosError(status) ==
    [name |-> "AxiosError",
     response |-> IF status = 0 THEN <<>> ELSE <<status>>,
     message |-> <<IF status = 0 THEN "Network Error"
                   ELSE IF status = 404 THEN "Request failed with status code 404"
                   ELSE "Request failed with status code 403">>]

\* new Error(`${prefix}: ${error}`): a plain Error, without .response
WrapError(prefix, e) ==
    [name |-> "Error", response |-> <<>>, message |-> <<prefix>> \o e.message]

FetchPrefix(k) ==
    CASE k = "repo"         -> "Failed to fetch repository"
      [] k = "contributors" -> "Failed to fetch contributors"
      [] k = "commits"      -> "Failed to fetch commits"
      [] k = "issues"       -> "Failed to fetch issues"
      [] k = "activity"     -> "Failed to fetch commit activity"
      [] k = "languages"    -> "Failed to fetch languages"

\* the catch block of a getX method
FetchError(k, status) == WrapError(FetchPrefix(k), AxiosError(status))
\* the catch block of getFullAnalytics
AnalyticsError(e) == WrapError("Failed to fetch full analytics", e)

errorHandler(e) ==
    IF e.name = "ZodError"
    THEN [status |-> 400, success |-> FALSE, error |-> "Validation error", data |-> <<>>]
    ELSE IF e.response = <<404>>
    THEN [status |-> 404, success |-> FALSE, error |-> "Repository not found", data |-> <<>>]
    ELSE IF e.response = <<403>>
    THEN [status |-> 403, success |-> FALSE, error |-> "GitHub API rate limit exceeded", data |-> <<>>]
    ELSE [status |-> 500, success |-> FALSE, error |-> "Internal server error", data |-> <<>>]

\* the object getFullAnalytics returns, from the six results
RepoAnalyticsOf(f) ==
    [repo |-> f["repo"].val[1], contributors |-> f["contributors"].val[1],
     recentCommits |-> f["commits"].val[1], issues |-> f["issues"].val[1],
     commitActivity |-> f["activity"].val[1], languages |-> f["languages"].val[1]]

\* res.json({success: true, data: analytics, ...})
SuccessResponse(f) ==
    [status |-> 200, success |-> TRUE, error |-> "", data |-> <<RepoAnalyticsOf(f)>>]

\* Promise.all over the six getX promises, then the route's try/catch:
\* from the aggregation a and response r so far, the new fetch states f and
\* the error of a fetch that has just rejected (<<>> if none), the new
\* <<agg, response>>
AllOk(f) == \A k \in Kinds : f[k].st = "ok"

Settle(a, r, f, rejected) ==
    IF a.st # "pending" THEN <<a, r>>
    ELSE IF rejected # <<>>
    THEN LET e == AnalyticsError(rejected[1])
         IN  <<[st |-> "rejected", error |-> <<e>>], <<errorHandler(e)>>>>
    ELSE IF AllOk(f)
    THEN <<[st |-> "resolved", error |-> <<>>], <<SuccessResponse(f)>>>>
    ELSE <<a, r>>

Quiescent ==
    /\ \A k \in Kinds : fetch[k].st # "pending"
    /\ \A s \in IssueStates : sub[s] # "pending"

\* GET /analyze/:owner/:repo:
\* getFullAnalytics calls the six getX; each returns the cached value or
\* issues its upstream request(s)
AnalyzeRequest ==
    /\ Quiescent
    /\ LET f == [k \in Kinds |->
                    IF CacheHit(cache, k) THEN [st |-> "ok", val |-> cache[k]]
                    ELSE [st |-> "pending", val |-> <<>>]]
           n == Settle([st |-> "pending", error |-> <<>>], <<>>, f, <<>>)
       IN  /\ fetch' = f
           /\ sub' = [s \in IssueStates |->
                        IF CacheHit(cache, "issues") THEN "idle" ELSE "pending"]
           /\ agg' = n[1]
           /\ response' = n[2]
    /\ UNCHANGED cache
    /\ UNCHANGED pureVars
    /\ UNCHANGED uiVars

\* an upstream request of getRepoInfo, getContributors, getCommits,
\* getCommitActivity or getLanguages succeeds
UpstreamOk(k) ==
    /\ k # "issues"
    /\ fetch[k].st = "pending"
    /\ LET f == [fetch EXCEPT ![k] = [st |-> "ok", val |-> <<UpstreamData(k)>>]]
           n == Settle(agg, response, f, <<>>)
       IN  /\ fetch' = f
           /\ agg' = n[1]
           /\ response' = n[2]
    /\ cache' = [cache EXCEPT ![k] = <<UpstreamData(k)>>]
    /\ UNCHANGED sub
    /\ UNCHANGED pureVars
    /\ UNCHANGED uiVars

\* ... succeeds with an empty body
UpstreamEmpty(k) ==
    /\ k \in EmptyBodyKinds
    /\ fetch[k].st = "pending"
    /\ LET f == [fetch EXCEPT ![k] = [st |-> "ok", val |-> <<EmptyBody>>]]
           n == Settle(agg, response, f, <<>>)
       IN  /\ fetch' = f
           /\ agg' = n[1]
           /\ response' = n[2]
    /\ cache' = [cache EXCEPT ![k] = <<EmptyBody>>]
    /\ UNCHANGED sub
    /\ UNCHANGED pureVars
    /\ UNCHANGED uiVars

\* a variant in which a failure aborts the requests still under way
UpstreamFailCancelling(k, status) ==
    /\ k # "issues"
    /\ fetch[k].st = "pending"
    /\ LET f == [x \in Kinds |->
                    IF x = k \/ fetch[x].st = "pending"
                    THEN [st |-> "failed", val |-> <<>>] ELSE fetch[x]]
           n == Settle(agg, response, f, <<FetchError(k, status)>>)
       IN  /\ fetch' = f
           /\ agg' = n[1]
           /\ response' = n[2]
    /\ sub' = [s \in IssueStates |-> IF sub[s] = "pending" THEN "failed" ELSE sub[s]]
    /\ UNCHANGED cache
    /\ UNCHANGED pureVars
    /\ UNCHANGED uiVars

\* ... or fails
UpstreamFail(k, status) ==
    /\ k # "issues"
    /\ fetch[k].st = "pending"
    /\ LET f == [fetch EXCEPT ![k] = [st |-> "failed", val |-> <<>>]]
           n == Settle(agg, response, f, <<FetchError(k, status)>>)
       IN  /\ fetch' = f
           /\ agg' = n[1]
           /\ response' = n[2]
    /\ UNCHANGED <<cache, sub>>
    /\ UNCHANGED pureVars
    /\ UNCHANGED uiVars

\* getIssues: one of its two requests succeeds; when both have, the
\* concatenation is cached and returned
IssuesOk(s) ==
    /\ sub[s] = "pending"
    /\ sub' = [sub EXCEPT ![s] = "ok"]
    /\ IF \A o \in IssueStates \ {s} : sub[o] = "ok"
       THEN LET f == [fetch EXCEPT !["issues"] = [st |-> "ok", val |-> <<AllIssues>>]]
                n == Settle(agg, response, f, <<>>)
            IN  /\ fetch' = f
                /\ agg' = n[1]
                /\ response' = n[2]
                /\ cache' = [cache EXCEPT !["issues"] = <<AllIssues>>]
       ELSE UNCHANGED <<fetch, agg, response, cache>>
    /\ UNCHANGED pureVars
    /\ UNCHANGED uiVars

\* a variant of getIssues that swallows the failure of one of its requests
\* and returns the issues it has
IssuesFailSwallowed(s, status) ==
    /\ sub[s] = "pending"
    /\ sub' = [sub EXCEPT ![s] = "failed"]
    /\ IF \A o \in IssueStates \ {s} : sub[o] = "ok"
       THEN LET f == [fetch EXCEPT !["issues"] = [st |-> "ok", val |-> <<AllIssues>>]]
                n == Settle(agg, response, f, <<>>)
            IN  /\ fetch' = f
                /\ agg' = n[1]
                /\ response' = n[2]
       ELSE UNCHANGED <<fetch, agg, response>>
    /\ UNCHANGED cache
    /\ UNCHANGED pureVars
    /\ UNCHANGED uiVars

\* getIssues: one of its two requests fails; the inner Promise.all rejects
\* on the first failure
IssuesFail(s, status) ==
    /\ sub[s] = "pending"
    /\ sub' = [sub EXCEPT ![s] = "failed"]
    /\ IF fetch["issues"].st = "pending"
       THEN LET f == [fetch EXCEPT !["issues"] = [st |-> "failed", val |-> <<>>]]
                n == Settle(agg, response, f, <<FetchError("issues", status)>>)
            IN  /\ fetch' = f
                /\ agg' = n[1]
                /\ response' = n[2]
       ELSE UNCHANGED <<fetch, agg, response>>
    /\ UNCHANGED cache
    /\ UNCHANGED pureVars
    /\ UNCHANGED uiVars

\* A url is a string, kept as the sequence of its pieces: an origin with its
\* trailing slash, a letter, a slash, or the suffix ".git".
MaxUrlLen == 3
UrlOrigins == {"https://github.com/", "http://github.com/", "https://gitlab.com/"}
UrlPieces == {"a", "/", ".git"}
\* every string of up to MaxUrlLen pieces with and without an origin, and
\* the repository's url with a trailing slash, with ".git", and with a
\* further path segment
UrlInputs ==
    { o \o p : o \in {<<>>} \cup {<<x>> : x \in UrlOrigins},
               p \in UNION {[1..n -> UrlPieces] : n \in 0..MaxUrlLen} }
    \cup { <<"https://github.com/", "a", "/", "a">> \o p :
               p \in {<<"/">>, <<".git">>, <<"/", "a">>} }
\* the repository the service is modelled for
Owner == <<"a">>
Repo == <<"a">>

\* z.string().url(): new URL(url) does not throw, which needs a scheme
zodUrl(url) == url # <<>> /\ url[1] \in UrlOrigins
ZodError == [name |-> "ZodError", response |-> <<>>, message |-> <<"Invalid url">>]

\* url.match(/^https:\/\/github\.com\/([^\/]+)\/([^\/]+?)(?:\/|\.git)?$/):
\* the owner runs to the first slash, the repo is the shortest run without a
\* slash after which only "/", ".git" or nothing is left
validateRepoUrl(url) ==
    LET rest    == IF url = <<>> THEN <<>> ELSE Tail(url)
        slashes == {i \in 1..Len(rest) : rest[i] = "/"}
        slash   == IF slashes = {} THEN 0
                   ELSE CHOOSE i \in slashes : \A j \in slashes : i <= j
        after   == SubSeq(rest, slash + 1, Len(rest))
        lens    == {n \in 1..Len(after) :
                      /\ \A i \in 1..n : after[i] # "/"
                      /\ SubSeq(after, n + 1, Len(after)) \in {<<>>, <<"/">>, <<".git">>}}
    IN  IF url # <<>> /\ url[1] = "https://github.com/" /\ slash > 1 /\ lens # {}
        THEN [ok |-> TRUE, owner |-> SubSeq(rest, 1, slash - 1),
              repo |-> SubSeq(after, 1, CHOOSE n \in lens : \A m \in lens : n <= m),
              error |-> <<>>]
        ELSE [ok |-> FALSE, owner |-> <<>>, repo |-> <<>>,
              error |-> <<[name |-> "Error", response |-> <<>>,
                           message |-> <<"Invalid GitHub repository URL">>]>>]

\* POST /analyze-url: repoUrlSchema.parse, validateRepoUrl, then
\* getFullAnalytics(owner, repo); whatever is thrown goes to errorHandler
AnalyzeUrlRequest(url) ==
    LET v == validateRepoUrl(url)
    IN  IF zodUrl(url) /\ v.ok
        THEN /\ v.owner = Owner
             /\ v.repo = Repo
             /\ AnalyzeRequest
        ELSE /\ Quiescent
             /\ response' = <<errorHandler(IF zodUrl(url) THEN v.error[1] ELSE ZodError)>>
             /\ fetch' = [k \in Kinds |-> [st |-> "idle", val |-> <<>>]]
             /\ sub' = [s \in IssueStates |-> "idle"]
             /\ agg' = [st |-> "idle", error |-> <<>>]
             /\ UNCHANGED cache
             /\ UNCHANGED pureVars
             /\ UNCHANGED uiVars

\* NodeCache({ stdTTL: 600 }): an entry expires
CacheExpire(k) ==
    /\ cache[k] # <<>>
    /\ cache' = [cache EXCEPT ![k] = <<>>]
    /\ UNCHANGED <<fetch, sub, agg, response>>
    /\ UNCHANGED pureVars
    /\ UNCHANGED uiVars

InitBackend == PureInit /\ BackInit /\ UiInit

NextBackend ==
    \/ AnalyzeRequest
    \/ \E url \in UrlInputs : AnalyzeUrlRequest(url)
    \/ \E k \in Kinds : UpstreamOk(k)
    \/ \E k \in Kinds, status \in UpstreamFailures : UpstreamFail(k, status)
    \/ \E s \in IssueStates : IssuesOk(s)
    \/ \E s \in IssueStates, status \in UpstreamFailures : IssuesFail(s, status)
    \/ \E k \in Kinds : CacheExpire(k)

SpecBackend == InitBackend /\ [][NextBackend]_vars

\* the service with upstream answers that may have no body
NextCache ==
    \/ AnalyzeRequest
    \/ \E k \in Kinds : UpstreamOk(k)
    \/ \E k \in Kinds : UpstreamEmpty(k)
    \/ \E k \in Kinds, status \in UpstreamFailures : UpstreamFail(k, status)
    \/ \E s \in IssueStates : IssuesOk(s)
    \/ \E s \in IssueStates, status \in UpstreamFailures : IssuesFail(s, status)
    \/ \E k \in Kinds : CacheExpire(k)

SpecCache == InitBackend /\ [][NextCache]_vars


(***************************************************************************)
(* Dashboard (newer ProductViz component): the React state, handleAnalyze  *)
(* and analyzeRepository.  A response of the backend is handled in one     *)
(* step: the rest of analyzeRepository and, when it settles the            *)
(* invocation, the catch/finally of handleAnalyze.  inv lists, in the      *)
(* order they started, the invocations of handleAnalyze that still have a  *)
(* pending analyzeRepository call or have not finished.                    *)
(***************************************************************************)
\* how many analyzeRepository calls may be awaiting their answer at once
MaxPending == 2

ViewModes == {"single", "compare", "health"}
\* contents of a URL field: empty, blank, a repository URL
Urls == {"", " ", "https://github.com/a/x"}
\* String.prototype.trim
Trim(u) == IF u = " " THEN "" ELSE u

\* what a failed analyzeRepository throws: the error text of the backend's
\* answer, or the TypeError of a fetch that got no answer
FailureMessages == {"Internal server error", "Failed to fetch"}

\* the repository data a successful answer may carry
AnswerData ==
    { [repo |-> RepoRec(1500, 300, 80, 10, JsStr(11), JsObj, IsoDate(Now0 - 730), IsoDate(Now0 - 1)),
       contributors |-> Contributors(50)],
      [repo |-> RepoRec(7, 0, 2, 0, Null, Null, IsoDate(Now0 - 10), IsoDate(Now0 - 10)),
       contributors |-> Contributors(3)] }

\* the snapshot of an answer; current tells whether the invocation that asked
\* for it was the most recently started one when the snapshot was stored (a
\* later invocation clears the slots, so this stays true of a stored snapshot)
Answer(current, d) == [current |-> current, repo |-> d.repo, contributors |-> d.contributors]

PendingCalls ==
    Cardinality({<<i, j>> \in (1..Len(inv)) \X (1..2) : inv[i].call[j] = "pending"})

\* a variant of handleAnalyze that keeps the displayed snapshots while the
\* new request is under way
handleAnalyzeKeeping ==
    IF Trim(repoUrl) = ""
    THEN /\ error' = "Please enter a GitHub repository URL"
         /\ UNCHANGED <<viewMode, repoUrl, repoUrl2, analytics, analytics2, loading, inv, latest>>
    ELSE IF viewMode = "compare" /\ Trim(repoUrl2) = ""
    THEN /\ error' = "Please enter both repository URLs for comparison"
         /\ UNCHANGED <<viewMode, repoUrl, repoUrl2, analytics, analytics2, loading, inv, latest>>
    ELSE /\ PendingCalls + (IF viewMode = "compare" THEN 2 ELSE 1) <= MaxPending
         /\ loading' = TRUE
         /\ error' = ""
         /\ inv' = Append(inv,
                [st |-> "running",
                 call |-> <<"pending", IF viewMode = "compare" THEN "pending" ELSE "none">>])
         /\ latest' = [active |-> TRUE, had |-> <<analytics # <<>>, analytics2 # <<>>>>]
         /\ UNCHANGED <<viewMode, repoUrl, repoUrl2, analytics, analytics2>>

\* handleAnalyze, up to its first await
handleAnalyze ==
    IF Trim(repoUrl) = ""
    THEN /\ error' = "Please enter a GitHub repository URL"
         /\ UNCHANGED <<viewMode, repoUrl, repoUrl2, analytics, analytics2, loading, inv, latest>>
    ELSE IF viewMode = "compare" /\ Trim(repoUrl2) = ""
    THEN /\ error' = "Please enter both repository URLs for comparison"
         /\ UNCHANGED <<viewMode, repoUrl, repoUrl2, analytics, analytics2, loading, inv, latest>>
    ELSE /\ PendingCalls + (IF viewMode = "compare" THEN 2 ELSE 1) <= MaxPending
         /\ loading' = TRUE
         /\ error' = ""
         /\ analytics' = <<>>
         /\ analytics2' = <<>>
         /\ inv' = Append(inv,
                [st |-> "running",
                 call |-> <<"pending", IF viewMode = "compare" THEN "pending" ELSE "none">>])
         /\ latest' = [active |-> TRUE, had |-> <<analytics # <<>>, analytics2 # <<>>>>]
         /\ UNCHANGED <<viewMode, repoUrl, repoUrl2>>

\* the Analyze / Compare button: disabled={loading}
ClickAnalyze ==
    /\ ~loading
    /\ handleAnalyze
    /\ UNCHANGED pureVars
    /\ UNCHANGED backVars

\* Enter in a URL field: onKeyPress={(e) => e.key === 'Enter' && handleAnalyze()}
PressEnter ==
    /\ handleAnalyze
    /\ UNCHANGED pureVars
    /\ UNCHANGED backVars

SetViewMode(m) ==
    /\ viewMode # m
    /\ viewMode' = m
    /\ UNCHANGED <<repoUrl, repoUrl2, analytics, analytics2, loading, error, inv, latest>>
    /\ UNCHANGED pureVars
    /\ UNCHANGED backVars

EditUrl(u) ==
    /\ repoUrl # u
    /\ repoUrl' = u
    /\ UNCHANGED <<viewMode, repoUrl2, analytics, analytics2, loading, error, inv, latest>>
    /\ UNCHANGED pureVars
    /\ UNCHANGED backVars

\* the second field exists in compare mode only
EditUrl2(u) ==
    /\ viewMode = "compare"
    /\ repoUrl2 # u
    /\ repoUrl2' = u
    /\ UNCHANGED <<viewMode, repoUrl, analytics, analytics2, loading, error, inv, latest>>
    /\ UNCHANGED pureVars
    /\ UNCHANGED backVars

\* whether every analyzeRepository call of an invocation has succeeded
CallsDone(c) == \A j \in 1..2 : c[j] \in {"ok", "none"}

\* inv with invocation i replaced by r, or dropped once r has finished and
\* has no pending call left
Update(i, r) ==
    IF r.st # "running" /\ \A j \in 1..2 : r.call[j] # "pending"
    THEN SubSeq(inv, 1, i - 1) \o SubSeq(inv, i + 1, Len(inv))
    ELSE [inv EXCEPT ![i] = r]

\* history: latest.active tells whether the most recently started invocation
\* is still in inv (it is then the last one), latest.had which of the two
\* slots displayed a snapshot when it started
Latest(i, newInv) ==
    IF latest.active /\ i = Len(inv) /\ Len(newInv) < Len(inv)
    THEN [latest EXCEPT !.active = FALSE]
    ELSE latest

\* analyzeRepository of invocation i, call j: the answer is a success with
\* data d; setData(data.data), and handleAnalyze finishes if this was its
\* last call
AnswerOk(i, j, d) ==
    /\ i \in 1..Len(inv)
    /\ inv[i].call[j] = "pending"
    /\ LET c    == [inv[i].call EXCEPT ![j] = "ok"]
           fin  == inv[i].st = "running" /\ CallsDone(c)
       IN  /\ inv' = Update(i, [inv[i] EXCEPT !.call = c,
                                              !.st = IF fin THEN "ok" ELSE @])
           /\ loading' = IF fin THEN FALSE ELSE loading
    /\ IF j = 1
       THEN /\ analytics' = <<Answer(latest.active /\ i = Len(inv), d)>>
            /\ UNCHANGED analytics2
       ELSE /\ analytics2' = <<Answer(latest.active /\ i = Len(inv), d)>>
            /\ UNCHANGED analytics
    /\ latest' = Latest(i, inv')
    /\ UNCHANGED <<viewMode, repoUrl, repoUrl2, error>>
    /\ UNCHANGED pureVars
    /\ UNCHANGED backVars

\* a variant in which handleAnalyze waits for both analyses to settle
\* (Promise.allSettled) before it runs its catch and finally
AnswerFailSettled(i, j, msg) ==
    /\ i \in 1..Len(inv)
    /\ inv[i].call[j] = "pending"
    /\ LET c   == [inv[i].call EXCEPT ![j] = "failed"]
           fin == inv[i].st = "running" /\ \A k \in 1..2 : c[k] # "pending"
       IN  /\ inv' = Update(i, [inv[i] EXCEPT !.call = c,
                                              !.st = IF fin THEN "failed" ELSE @])
           /\ error' = IF fin THEN msg ELSE error
           /\ loading' = IF fin THEN FALSE ELSE loading
    /\ latest' = Latest(i, inv')
    /\ UNCHANGED <<viewMode, repoUrl, repoUrl2, analytics, analytics2>>
    /\ UNCHANGED pureVars
    /\ UNCHANGED backVars

\* ... the answer is a failure (or there is none); analyzeRepository throws,
\* and the first rejection of an invocation runs its catch and finally
AnswerFail(i, j, msg) ==
    /\ i \in 1..Len(inv)
    /\ inv[i].call[j] = "pending"
    /\ LET fin == inv[i].st = "running"
       IN  /\ inv' = Update(i, [inv[i] EXCEPT !.call[j] = "failed",
                                              !.st = IF fin THEN "failed" ELSE @])
           /\ error' = IF fin THEN msg ELSE error
           /\ loading' = IF fin THEN FALSE ELSE loading
    /\ latest' = Latest(i, inv')
    /\ UNCHANGED <<viewMode, repoUrl, repoUrl2, analytics, analytics2>>
    /\ UNCHANGED pureVars
    /\ UNCHANGED backVars

\* a variant of the comparison rows that caps the contributor counts at 30
prepareComparisonDataCapped ==
    IF analytics = <<>> \/ analytics2 = <<>> THEN <<>>
    ELSE LET a == analytics[1]
             b == analytics2[1]
             cap(n) == IF n > 30 THEN 30 ELSE n
         IN  << [metric |-> "Stars", repo1 |-> a.repo.stargazers_count, repo2 |-> b.repo.stargazers_count],
                [metric |-> "Forks", repo1 |-> a.repo.forks_count, repo2 |-> b.repo.forks_count],
                [metric |-> "Contributors", repo1 |-> cap(Len(a.contributors.items)),
                                            repo2 |-> cap(Len(b.contributors.items))],
                [metric |-> "Open Issues", repo1 |-> a.repo.open_issues_count, repo2 |-> b.repo.open_issues_count],
                [metric |-> "Watchers", repo1 |-> a.repo.watchers_count, repo2 |-> b.repo.watchers_count] >>

\* prepareComparisonData(): the rows of the comparison view
prepareComparisonData == compareRows(analytics, analytics2).rows

InitUi == PureInit /\ BackInit /\ UiInit

NextUi ==
    \/ ClickAnalyze
    \/ PressEnter
    \/ \E m \in ViewModes : SetViewMode(m)
    \/ \E u \in Urls : EditUrl(u)
    \/ \E u \in Urls : EditUrl2(u)
    \/ \E i \in 1..MaxPending, j \in 1..2, d \in AnswerData : AnswerOk(i, j, d)
    \/ \E i \in 1..MaxPending, j \in 1..2, msg \in FailureMessages : AnswerFail(i, j, msg)

SpecUi == InitUi /\ [][NextUi]_vars

(***************************************************************************)
(* Properties.                                                             *)
(***************************************************************************)

\* C1: for every snapshot with non-negative counts and any creation/update
\* timestamps relative to the clock, calculateHealthScore returns an integer
\* overall score in [0,100] and each of the five sub-scores is in [0,100].
\* (SpecHealth; does not hold: stabilityScore has no upper bound when
\* updated_at is ahead of the clock and no lower bound when created_at is.)
C1_ScoresInRange ==
    \A i \in 1..Len(calls) :
        LET o == calls[i].out
            in(x) == x[2] = 1 /\ 0 <= x[1] /\ x[1] <= 100
        IN  /\ in(o.score)
            /\ in(o.metrics.activity)
            /\ in(o.metrics.maintenance)
            /\ in(o.metrics.community)
            /\ in(o.metrics.documentation)
            /\ in(o.metrics.stability)

\* C2: getFullAnalytics is all-or-nothing: a success response is sent only
\* when all six fetches succeeded and then carries exactly the six results;
\* once any fetch (or either of the two issue requests) has failed the
\* response is a failure without data.  (SpecBackend)
C2_AllOrNothing ==
    /\ (response # <<>> /\ response[1].success) =>
          /\ \A k \in Kinds : fetch[k].st = "ok"
          /\ \A s \in IssueStates : sub[s] # "failed"
          /\ response[1].data =
                << [repo |-> <<"repo">>, contributors |-> <<"contributors">>,
                    recentCommits |-> <<"commits">>,
                    issues |-> <<"issues?state=open", "issues?state=closed">>,
                    commitActivity |-> <<"activity">>, languages |-> <<"languages">>] >>
    /\ ((\E k \in Kinds : fetch[k].st = "failed") \/ (\E s \in IssueStates : sub[s] = "failed")) =>
          /\ response # <<>>
          /\ ~response[1].success
          /\ response[1].data = <<>>

\* the closed-issues request failed after the open-issues request and the
\* repository fetch had succeeded, and the request was answered with a failure
C2_Witness ==
    /\ sub["open"] = "ok"
    /\ sub["closed"] = "failed"
    /\ fetch["repo"].st = "ok"
    /\ response # <<>>
    /\ ~response[1].success

\* C3: the failure sent to the client carries the most specific known kind
\* of the upstream failure that caused it: 404 gives status 404 'Repository
\* not found', 403 gives status 403, anything else the generic 500.
\* (SpecBackend; does not hold: the getX methods rethrow a plain Error, so
\* errorHandler never sees the upstream status.)
C3_MostSpecificKind ==
    (response # <<>> /\ agg.st = "rejected") =>
        LET m     == agg.error[1].message
            cause == m[Len(m)]
        IN  /\ cause = "Request failed with status code 404" =>
                  (response[1].status = 404 /\ response[1].error = "Repository not found")
            /\ cause = "Request failed with status code 403" =>
                  response[1].status = 403
            /\ cause = "Network Error" =>
                  response[1].status = 500

\* C4, as stated: when the most recently started analysis request fails, the
\* slots that displayed a snapshot when it started still display one, and
\* the error message is set.  (SpecUi; does not hold.)
C4_FailureKeepsSnapshots ==
    [][ \A i \in 1..Len(inv), j \in 1..2, msg \in FailureMessages :
            (AnswerFail(i, j, msg) /\ inv[i].st = "running" /\ latest.active /\ i = Len(inv)) =>
                /\ error' = msg
                /\ latest.had[1] => analytics' # <<>>
                /\ latest.had[2] => analytics2' # <<>>
      ]_vars

\* C4, amended: a request that starts clears both snapshot slots and the
\* error message; when a request fails, the failure sets the error message
\* to the failure's text, ends loading and writes neither slot, so the
\* snapshots displayed before the request are not brought back.  (SpecUi)
C4_FailureAfterClearing ==
    [][ /\ Len(inv') > Len(inv) =>
              (analytics' = <<>> /\ analytics2' = <<>> /\ error' = "" /\ loading')
        /\ \A i \in 1..Len(inv), j \in 1..2, msg \in FailureMessages :
              (AnswerFail(i, j, msg) /\ inv[i].st = "running") =>
                  /\ error' = msg
                  /\ ~loading'
                  /\ analytics' = analytics
                  /\ analytics2' = analytics2
      ]_vars

\* a snapshot was displayed when the latest request started; the request has
\* failed and nothing is displayed but the error
C4_Witness ==
    /\ ~latest.active
    /\ latest.had[1]
    /\ inv = <<>>
    /\ analytics = <<>>
    /\ error \in FailureMessages
    /\ ~loading

\* C5: two calls of calculateHealthScore on the same snapshot, made at any
\* two points in time, return identical output.  (SpecHealth; does not hold:
\* the stability sub-score reads the clock.)
C5_SameOutputAtAnyTime ==
    \A i \in 1..Len(calls), j \in 1..Len(calls) : calls[i].out = calls[j].out

\* C6: for every issue list the displayed statistics satisfy open + closed =
\* total and total <= number of records, and total counts only the records
\* whose state is 'open' or 'closed', in the helper getIssueStats and in the
\* single view.  (SpecMetrics; does not hold for the single view.)
C6_IssueStatsConsistent ==
    \A i \in 1..Len(calls) :
        LET st    == calls[i].out.issues
            items == data.issues.items
            n     == Cardinality({k \in 1..Len(items) :
                        /\ items[k].obj
                        /\ items[k].state \in {<<"string", "open">>, <<"string", "closed">>}})
        IN  /\ st.open + st.closed = st.total
            /\ st.total <= Len(items)
            /\ st.total = n

\* C7, as stated: with 1 to 6 non-zero languages the one-decimal percentages
\* returned add up to 100.0 within 0.1 (percentages in tenths).
\* (SpecMetrics; does not hold.)
C7_SumWithinOneTenth ==
    \A i \in 1..Len(calls) :
        LET rows  == calls[i].out.languages
            items == data.languages.items
            nz    == Cardinality({k \in 1..Len(items) : items[k][2] > 0})
            sum   == SumSeq([k \in 1..Len(rows) |-> rows[k].percentage])
        IN  (1 <= nz /\ nz <= 6) => (999 <= sum /\ sum <= 1001)

\* C7, amended: with 1 to 6 non-zero languages every one of them is
\* returned, and the one-decimal percentages add up to 100.0 within 0.05 per
\* returned language (so within 0.3).  (SpecMetrics)
C7_SumWithinHalfTenthEach ==
    \A i \in 1..Len(calls) :
        LET rows  == calls[i].out.languages
            items == data.languages.items
            nz    == Cardinality({k \in 1..Len(items) : items[k][2] > 0})
            sum   == SumSeq([k \in 1..Len(rows) |-> rows[k].percentage])
        IN  (1 <= nz /\ nz <= 6) => (Len(rows) = nz /\ 2 * Abs(sum - 1000) <= Len(rows))

\* six languages are returned and their percentages add up to 100.2
C7_Witness ==
    \E i \in 1..Len(calls) :
        LET rows == calls[i].out.languages
        IN  /\ Len(rows) = 6
            /\ SumSeq([k \in 1..Len(rows) |-> rows[k].percentage]) = 1002

\* C8: for every commit-activity list the window has at most 12 entries,
\* every entry comes from a record whose week and total are numbers (the
\* input records are one week apart, so an entry's date tells its record),
\* and every entry's commits are that record's total, or 0 if it is
\* negative.  (SpecMetrics)
C8_CommitWindow ==
    \A i \in 1..Len(calls) :
        LET w     == calls[i].out.commits
            items == data.commitActivity.items
        IN  /\ Len(w) <= 12
            /\ \A e \in 1..Len(w) :
                  /\ w[e].commits >= 0
                  /\ \E k \in 1..Len(items) : w[e].date = 7 * k
                  /\ \A k \in 1..Len(items) :
                        (items[k].obj /\ TypeOf(items[k].week) = "number" /\ w[e].date = 7 * k) =>
                            /\ TypeOf(items[k].total) = "number"
                            /\ w[e].commits \in {0, items[k].total[2]}
                            /\ w[e].commits >= items[k].total[2]

\* a window of 12 entries cut from a longer list that has a record with a
\* negative total (shown as 0) and a record with a non-numeric total
C8_Witness ==
    \E i \in 1..Len(calls) :
        LET w     == calls[i].out.commits
            items == data.commitActivity.items
        IN  /\ Len(items) > 12
            /\ Len(w) = 12
            /\ \E k \in 1..Len(items) : items[k].obj /\ TypeOf(items[k].total) = "null"
            /\ \E k \in 1..Len(items), e \in 1..Len(w) :
                  /\ items[k].obj
                  /\ TypeOf(items[k].total) = "number"
                  /\ items[k].total[2] < 0
                  /\ w[e].date = 7 * k
                  /\ w[e].commits = 0

\* C9: Scenario A (1500 stars, 25 contributors, weekly totals 10, 20, 15,
\* 25, open_issues_count 10, 40 closed issues, description and license,
\* created 730 days and updated 1 day before the call) scores activity 100,
\* maintenance 80, community 100, documentation 100, stability 99, overall
\* 95, grade 'A+'.  (SpecHealth)
C9_ScenarioA ==
    \A i \in 1..Len(calls) :
        (data = ScenarioA /\ calls[i].at = Now0) =>
            LET o == calls[i].out
            IN  /\ o.metrics.activity = <<100, 1>>
                /\ o.metrics.maintenance = <<80, 1>>
                /\ o.metrics.community = <<100, 1>>
                /\ o.metrics.documentation = <<100, 1>>
                /\ o.metrics.stability = <<99, 1>>
                /\ o.score = <<95, 1>>
                /\ o.grade = "A+"

\* the health view of Scenario A has been rendered on the day it was fetched
C9_Witness ==
    \E i \in 1..Len(calls) :
        /\ data = ScenarioA
        /\ calls[i].at = Now0
        /\ calls[i].out.grade = "A+"

\* C10: with both snapshots present the comparison has exactly the 5 rows
\* Stars, Forks, Contributors, Open Issues, Watchers in this order, each
\* with the two snapshots' values unchanged, the Contributors row with the
\* lengths of the two contributor lists; with a snapshot absent it is
\* empty.  (SpecUi)
C10_ComparisonRows ==
    LET rows == prepareComparisonData
    IN  IF analytics = <<>> \/ analytics2 = <<>>
        THEN rows = <<>>
        ELSE /\ Len(rows) = 5
             /\ <<rows[1].metric, rows[2].metric, rows[3].metric, rows[4].metric, rows[5].metric>>
                   = <<"Stars", "Forks", "Contributors", "Open Issues", "Watchers">>
             /\ <<rows[1].repo1, rows[1].repo2>>
                   = <<analytics[1].repo.stargazers_count, analytics2[1].repo.stargazers_count>>
             /\ <<rows[2].repo1, rows[2].repo2>>
                   = <<analytics[1].repo.forks_count, analytics2[1].repo.forks_count>>
             /\ <<rows[3].repo1, rows[3].repo2>>
                   = <<Len(analytics[1].contributors.items), Len(analytics2[1].contributors.items)>>
             /\ <<rows[4].repo1, rows[4].repo2>>
                   = <<analytics[1].repo.open_issues_count, analytics2[1].repo.open_issues_count>>
             /\ <<rows[5].repo1, rows[5].repo2>>
                   = <<analytics[1].repo.watchers_count, analytics2[1].repo.watchers_count>>

\* both snapshots are displayed, with 50 and 3 contributors fetched, and the
\* Contributors row reads 50 and 3
C10_Witness ==
    /\ analytics # <<>>
    /\ analytics2 # <<>>
    /\ Len(analytics[1].contributors.items) = 50
    /\ Len(analytics2[1].contributors.items) = 3
    /\ prepareComparisonData[3] = [metric |-> "Contributors", repo1 |-> 50, repo2 |-> 3]

\* C13: the language distribution is the reference one: the entries with
\* zero bytes are dropped; every row is a remaining language with its bytes
\* and its share of the sum of the non-zero entries, rounded to one decimal
\* (in tenths); the rows are in non-increasing order of bytes, languages of
\* equal bytes in the order of the map; the 6 largest are kept; an empty map
\* or a zero total gives no rows.  (SpecMetrics)
C13_LanguageDistribution ==
    \A i \in 1..Len(calls) :
        LET rows  == calls[i].out.languages
            items == data.languages.items
            nz    == {k \in 1..Len(items) : items[k][2] # 0}
            total == SumSeq([k \in 1..Len(items) |-> IF k \in nz THEN items[k][2] ELSE 0])
            at(r) == CHOOSE k \in 1..Len(items) : items[k][1] = rows[r].name
        IN  /\ Len(rows) = IF Cardinality(nz) > 6 THEN 6 ELSE Cardinality(nz)
            /\ \A r \in 1..Len(rows) :
                  /\ \E k \in nz : items[k][1] = rows[r].name
                  /\ rows[r].value = items[at(r)][2]
                  /\ rows[r].percentage = (2000 * rows[r].value + total) \div (2 * total)
            /\ \A r \in 1..Len(rows), q \in 1..Len(rows) :
                  r < q => /\ rows[r].name # rows[q].name
                           /\ rows[r].value >= rows[q].value
                           /\ rows[r].value = rows[q].value => at(r) < at(q)
            /\ \A k \in nz :
                  (\A r \in 1..Len(rows) : rows[r].name # items[k][1]) =>
                      \A r \in 1..Len(rows) : rows[r].value >= items[k][2]

\* seven languages with bytes, not all equal and not in order: six rows
C13_Witness ==
    \E i \in 1..Len(calls) :
        LET rows  == calls[i].out.languages
            items == data.languages.items
        IN  /\ \A k \in 1..Len(items) : items[k][2] > 0
            /\ Len(items) = 7
            /\ items[1][2] < items[7][2]
            /\ Len(rows) = 6
            /\ rows[1].value > rows[6].value

\* C14: the N entries of the commit-activity window (N <= 12) are the last N
\* well-formed records in order, and the i-th entry is labelled 'Week i'.
\* (SpecMetrics; the labels do not hold: they are given before the cut, so
\* with 13 well-formed records the window reads 'Week 2' .. 'Week 13'.)
C14_WindowLabels ==
    \A i \in 1..Len(calls) :
        LET w     == calls[i].out.commits
            items == data.commitActivity.items
            good  == {k \in 1..Len(items) :
                        /\ items[k].obj
                        /\ TypeOf(items[k].week) = "number"
                        /\ TypeOf(items[k].total) = "number"}
            n     == IF Cardinality(good) > 12 THEN 12 ELSE Cardinality(good)
        IN  /\ Len(w) = n
            /\ \A e \in 1..Len(w) :
                  /\ \E k \in good :
                        /\ w[e].date = 7 * k
                        /\ Cardinality({g \in good : g > k}) = n - e
                  /\ w[e].week = <<"Week", e>>

\* C15: the top labels are at most 5; every count is the number of
\* occurrences of exactly that name; counts do not increase; no omitted
\* label has a higher count than an included one; labels of equal count are
\* in the order in which they were first met, whatever the names look like.
\* (SpecMetrics; the order of equal counts does not hold for names that are
\* array indices such as '2' or '10'.)
C15_TopLabels ==
    \A i \in 1..Len(calls) :
        LET t     == calls[i].out.labels
            names == LabelNames(data.issues.items)
            count(n) == Cardinality({j \in 1..Len(names) : names[j] = n})
            first(n) == CHOOSE j \in 1..Len(names) :
                            names[j] = n /\ \A h \in 1..(j - 1) : names[h] # n
        IN  /\ Len(t) <= 5
            /\ \A r \in 1..Len(t) :
                  /\ \E j \in 1..Len(names) : names[j] = t[r].name
                  /\ t[r].count = count(t[r].name)
            /\ \A r \in 1..Len(t), q \in 1..Len(t) :
                  r < q => /\ t[r].count >= t[q].count
                           /\ t[r].count = t[q].count => first(t[r].name) < first(t[q].name)
            /\ \A j \in 1..Len(names) :
                  (\A r \in 1..Len(t) : t[r].name # names[j]) =>
                      \A r \in 1..Len(t) : t[r].count >= count(names[j])

\* C17: the Maintenance sub-score is closed / (repoOpen + closed) * 100,
\* closed the number of fetched issue records of state 'closed' and repoOpen
\* the repository's open_issues_count, and 50 when repoOpen + closed is 0;
\* it is reported rounded, and the maintenance recommendation is given
\* exactly when the unrounded value is below 60.  (SpecHealth)
C17_Maintenance ==
    \A i \in 1..Len(calls) :
        LET o        == calls[i].out
            items    == data.issues.items
            closed   == Cardinality({k \in 1..Len(items) : items[k].state = <<"string", "closed">>})
            repoOpen == data.repo.open_issues_count
            den      == repoOpen + closed
            advised  == \E r \in 1..Len(o.recommendations) :
                            o.recommendations[r] = "Address open issues to improve maintenance score"
        IN  IF den = 0
            THEN o.metrics.maintenance = <<50, 1>> /\ advised
            ELSE /\ o.metrics.maintenance = <<(200 * closed + den) \div (2 * den), 1>>
                 /\ advised <=> (100 * closed < 60 * den)

\* 3 closed issues fetched and 1 open one, open_issues_count 5: 3/8, 38
C17_Witness ==
    \E i \in 1..Len(calls) :
        /\ data.repo.open_issues_count = 5
        /\ Len(data.issues.items) = 4
        /\ calls[i].out.metrics.maintenance = <<38, 1>>

\* C19: the Documentation sub-score is 30, plus 40 if the description is
\* non-empty, plus 30 if there is a license; the documentation
\* recommendation is given exactly when the description is absent or empty,
\* whatever the license.  (SpecHealth)
C19_Documentation ==
    \A i \in 1..Len(calls) :
        LET o       == calls[i].out
            desc    == data.repo.description
            hasDesc == desc[1] = "string" /\ desc[2] > 0
            hasLic  == data.repo.license[1] = "object"
            advised == \E r \in 1..Len(o.recommendations) :
                           o.recommendations[r] =
                               "Improve documentation with detailed README and proper license"
        IN  /\ o.metrics.documentation =
                  <<30 + (IF hasDesc THEN 40 ELSE 0) + (IF hasLic THEN 30 ELSE 0), 1>>
            /\ advised <=> ~hasDesc

\* a description without a license: 70, and no recommendation
C19_Witness ==
    \E i \in 1..Len(calls) :
        /\ data.repo.description = JsStr(11)
        /\ data.repo.license = Null
        /\ calls[i].out.metrics.documentation = <<70, 1>>
        /\ \A r \in 1..Len(calls[i].out.recommendations) :
              calls[i].out.recommendations[r] #
                  "Improve documentation with detailed README and proper license"

\* C20: for every integer overall score the grade is the first matching
\* band: >= 90 'A+', >= 80 'A', >= 70 'B', >= 60 'C', >= 50 'D', else 'F';
\* every grade has one colour; a higher score never has a lower grade.
\* (SpecGrade)
C20_GradeBands ==
    \A i \in 1..Len(calls) :
        LET o == calls[i].out
            n == o.score[1]
            rank(g) == CASE g = "A+" -> 5 [] g = "A" -> 4 [] g = "B" -> 3
                         [] g = "C" -> 2 [] g = "D" -> 1 [] g = "F" -> 0
        IN  /\ o.grade = CASE n >= 90 -> "A+"
                           [] n >= 80 /\ n < 90 -> "A"
                           [] n >= 70 /\ n < 80 -> "B"
                           [] n >= 60 /\ n < 70 -> "C"
                           [] n >= 50 /\ n < 60 -> "D"
                           [] n < 50 -> "F"
            /\ o.color = CASE o.grade = "A+" -> "#10B981"
                           [] o.grade = "A"  -> "#34D399"
                           [] o.grade = "B"  -> "#FBBF24"
                           [] o.grade = "C"  -> "#F59E0B"
                           [] o.grade = "D"  -> "#F97316"
                           [] o.grade = "F"  -> "#EF4444"
            /\ \A m \in 0..n : rank(gradeOf(Num(m))[1]) <= rank(o.grade)

\* the score 80, the lowest of its band, has been graded 'A'
C20_Witness ==
    \E i \in 1..Len(calls) :
        /\ calls[i].out.score = <<80, 1>>
        /\ calls[i].out.grade = "A"

\* C11: whatever optional or collection field of the snapshot is missing,
\* null or of another shape, the comparator does not throw and the health
\* scorer reports numbers (the defaults), not NaN.  (SpecDefaults; does not
\* hold: the comparator throws on a null or missing contributors field, and
\* a missing or unparsable timestamp makes stability and score NaN.)
C11_NeverRaises ==
    \A i \in 1..Len(calls) :
        LET o == calls[i].out
        IN  /\ o.view = "compare" => ~o.result.threw
            /\ o.view = "health" =>
                  /\ ~IsNaN(o.health.score)
                  /\ ~IsNaN(o.health.metrics.activity)
                  /\ ~IsNaN(o.health.metrics.maintenance)
                  /\ ~IsNaN(o.health.metrics.community)
                  /\ ~IsNaN(o.health.metrics.documentation)
                  /\ ~IsNaN(o.health.metrics.stability)

C18_DateDefaults ==
    \A i \in 1..Len(calls) :
        LET o == calls[i].out
        IN  (/\ o.view = "health"
             /\ \/ data.repo.created_at[1] # "isodate"
                \/ data.repo.updated_at[1] # "isodate") =>
                /\ o.health.metrics.stability = <<50, 1>>
                /\ o.health.score[2] = 1
                /\ 0 <= o.health.score[1]
                /\ o.health.score[1] <= 100

\* C12: a POST /analyze-url whose url is not https://github.com/<owner>/<repo>
\* (optionally followed by "/" or ".git") is answered without any upstream
\* fetch and with the cache untouched, by a client-error response that is
\* not the generic failure; for an accepted url the owner and the repo
\* extracted are non-empty and hold no "/".  (SpecBackend; does not hold: a
\* url that parses as a URL but is not of that form gets the generic 500.)
C12_InvalidUrlRejected ==
    [][Quiescent =>
        \A url \in UrlInputs :
            LET name(x)   == x # <<>> /\ \A i \in 1..Len(x) : x[i] # "/"
                rest      == IF url = <<>> THEN <<>> ELSE Tail(url)
                ofTheForm == /\ url # <<>>
                             /\ url[1] = "https://github.com/"
                             /\ \E i \in 1..Len(rest), j \in 1..Len(rest) :
                                   /\ i < j
                                   /\ name(SubSeq(rest, 1, i - 1))
                                   /\ rest[i] = "/"
                                   /\ name(SubSeq(rest, i + 1, j))
                                   /\ SubSeq(rest, j + 1, Len(rest)) \in {<<>>, <<"/">>, <<".git">>}
                v         == validateRepoUrl(url)
            IN  /\ v.ok => (name(v.owner) /\ name(v.repo))
                /\ (AnalyzeUrlRequest(url) /\ ~ofTheForm) =>
                      /\ cache' = cache
                      /\ \A k \in Kinds : fetch'[k].st # "pending"
                      /\ \A s \in IssueStates : sub'[s] # "pending"
                      /\ response' # <<>>
                      /\ ~response'[1].success
                      /\ response'[1].status \in 400..499
                      /\ response'[1].error # "Internal server error"]_vars

\* C21: the recommendations are one fixed string per sub-score below its
\* threshold (Activity < 50, Maintenance < 60, Community < 50,
\* Documentation < 70, Stability < 60), each decided on its own, in the
\* order activity, maintenance, community, documentation, stability; no
\* duplicates, at most 5, and none exactly when no sub-score is below its
\* threshold.  (SpecHealth)
C21_Recommendations ==
    \A i \in 1..Len(calls) :
        LET recs  == calls[i].out.recommendations
            t     == calls[i].at
            rows  == << <<Lt(activityScoreOf(data), Num(50)),
                          "Increase commit frequency to show active development">>,
                        <<Lt(maintenanceScoreOf(data), Num(60)),
                          "Address open issues to improve maintenance score">>,
                        <<Lt(communityScoreOf(data), Num(50)),
                          "Encourage more contributors and engagement">>,
                        <<Lt(documentationScoreOf(data), Num(70)),
                          "Improve documentation with detailed README and proper license">>,
                        <<Lt(stabilityScoreOf(data, t), Num(60)),
                          "Update repository more regularly to maintain stability">> >>
            has(x) == \E j \in 1..Len(recs) : recs[j] = x
            pos(x) == CHOOSE j \in 1..Len(recs) : recs[j] = x
        IN  /\ \A r \in 1..5 : has(rows[r][2]) <=> rows[r][1]
            /\ \A j \in 1..Len(recs) : \E r \in 1..5 : recs[j] = rows[r][2]
            /\ \A j, k \in 1..Len(recs) : recs[j] = recs[k] => j = k
            /\ \A q, r \in 1..5 :
                  (q < r /\ rows[q][1] /\ rows[r][1]) => pos(rows[q][2]) < pos(rows[r][2])
            /\ Len(recs) <= 5
            /\ recs = <<>> <=> \A r \in 1..5 : ~rows[r][1]

\* a report that advises on maintenance and stability and on nothing else
C21_Witness ==
    \E i \in 1..Len(calls) :
        calls[i].out.recommendations =
            << "Address open issues to improve maintenance score",
               "Update repository more regularly to maintain stability" >>

\* C27: in every report the recommendation for a sub-score is present if and
\* only if the reported (rounded) metric of that sub-score is below its
\* threshold.  (SpecHealth; does not hold: the thresholds are applied to the
\* sub-scores before rounding.)
C27_ConsistentWithMetrics ==
    \A i \in 1..Len(calls) :
        LET o      == calls[i].out
            has(x) == \E j \in 1..Len(o.recommendations) : o.recommendations[j] = x
        IN  /\ has("Increase commit frequency to show active development")
                <=> Lt(o.metrics.activity, Num(50))
            /\ has("Address open issues to improve maintenance score")
                <=> Lt(o.metrics.maintenance, Num(60))
            /\ has("Encourage more contributors and engagement")
                <=> Lt(o.metrics.community, Num(50))
            /\ has("Improve documentation with detailed README and proper license")
                <=> Lt(o.metrics.documentation, Num(70))
            /\ has("Update repository more regularly to maintain stability")
                <=> Lt(o.metrics.stability, Num(60))

\* C22: a comparison starts its two analyses together; the first of them to
\* fail ends the request at once, with the error message set and loading
\* cleared, whether or not the other analysis has been answered, and the
\* two slots never both hold a snapshot of that request (stated for the
\* most recently started request, whose snapshots the slots tell apart).
\* (SpecUi)
C22_FailsWithoutWaiting ==
    [][/\ (loading' /\ ~loading /\ viewMode = "compare") =>
              /\ Len(inv') = Len(inv) + 1
              /\ inv'[Len(inv')].call = <<"pending", "pending">>
       /\ \A i \in 1..MaxPending, j \in 1..2, msg \in FailureMessages :
              (/\ AnswerFail(i, j, msg)
               /\ inv[i].call[2] # "none"
               /\ inv[i].st = "running") =>
                  /\ error' = msg
                  /\ ~loading'
                  /\ (latest.active /\ i = Len(inv)) =>
                        ~(/\ analytics' # <<>>
                          /\ analytics2' # <<>>
                          /\ analytics'[1].current
                          /\ analytics2'[1].current)]_vars

\* one analysis of a comparison has failed while the other is still awaited:
\* the error is shown and loading is off
C22_Witness ==
    \E i \in 1..Len(inv) :
        /\ inv[i].st = "failed"
        /\ \E j \in 1..2 : inv[i].call[j] = "failed" /\ inv[i].call[3 - j] = "pending"
        /\ error \in FailureMessages
        /\ ~loading

\* C24: once no request is in flight, a stored snapshot is the result of the
\* most recently started request: the answer of an older request never
\* replaces or outlives the newer one's.  (SpecUi; does not hold: Enter in
\* the URL field starts a request while another is under way, and whichever
\* answer arrives last is stored.)
C24_LatestRequestWins ==
    inv = <<>> =>
        /\ analytics # <<>> => analytics[1].current
        /\ analytics2 # <<>> => analytics2[1].current

\* C25: loading is true exactly when at least one analysis request is in
\* flight.  (SpecUi; does not hold.)
C25_LoadingIffInFlight == loading <=> PendingCalls > 0

\* C26: while the error message of a failed request is shown, both snapshot
\* slots are null.  (SpecUi; does not hold: the analysis of a comparison
\* that succeeds stores its snapshot before or after the other one fails.)
C26_ErrorMeansNoSnapshot ==
    error \in FailureMessages => (analytics = <<>> /\ analytics2 = <<>>)

\* C23: an aggregation issues all its fetches before it awaits any; once one
\* of them has failed the outcome of the aggregation is the failure and
\* stays so, no data is returned, and the fetches still under way are not
\* cancelled: they stay pending until their own answer arrives.
\* (SpecBackend)
C23_FailureDiscardsTheRest ==
    [][/\ (Quiescent /\ agg'.st # "idle" /\ fetch' # fetch) =>
              \A k \in Kinds :
                  fetch'[k].st = IF cache[k] # <<>> THEN "ok" ELSE "pending"
       /\ (\E k \in Kinds : fetch[k].st # "failed" /\ fetch'[k].st = "failed") =>
              /\ agg'.st = "rejected"
              /\ response' # <<>>
              /\ ~response'[1].success
              /\ response'[1].data = <<>>
              /\ \A k, x \in Kinds :
                    (/\ fetch[k].st # "failed" /\ fetch'[k].st = "failed"
                     /\ x # k /\ fetch[x].st = "pending") => fetch'[x].st = "pending"
              /\ \A x, y \in IssueStates :
                    (/\ sub[x] # "failed" /\ sub'[x] = "failed"
                     /\ y # x /\ sub[y] = "pending") => sub'[y] = "pending"
              /\ (\A x \in IssueStates : ~(sub[x] # "failed" /\ sub'[x] = "failed")) =>
                    sub' = sub
       /\ (agg.st = "rejected" /\ ~Quiescent) =>
              (agg' = agg /\ response' = response)]_vars

\* the repository fetch failed first and rejected the aggregation; the
\* languages fetch was answered afterwards, and the commits fetch is still
\* under way
C23_Witness ==
    /\ agg.st = "rejected"
    /\ agg.error[1].message[2] = "Failed to fetch repository"
    /\ fetch["repo"].st = "failed"
    /\ fetch["languages"].st = "failed"
    /\ fetch["contributors"].st = "ok"
    /\ fetch["commits"].st = "pending"
    /\ response # <<>>
    /\ ~response[1].success

\* C30: the cache is read-through per resource kind of a repository: a
\* request for a cached key is served from the cache without an upstream
\* request, and one for a key that is not cached goes upstream; a
\* successful upstream fetch stores its result under its own key and no
\* other; a failed one leaves the cache as it was; the issues entry is
\* written only when both issue requests have succeeded; and after a failed
\* aggregation every entry of the cache belongs to a sub-fetch that
\* succeeded.  (SpecCache; does not hold: an entry holding an empty body is
\* not served from the cache.)
C30_ReadThroughCache ==
    [][/\ (Quiescent /\ agg'.st # "idle" /\ agg' # agg) =>
              \A k \in Kinds :
                  /\ cache[k] # <<>> =>
                        /\ fetch'[k] = [st |-> "ok", val |-> cache[k]]
                        /\ k = "issues" => \A x \in IssueStates : sub'[x] # "pending"
                  /\ cache[k] = <<>> => fetch'[k].st = "pending"
       /\ \A k \in Kinds :
              /\ (cache'[k] # cache[k] /\ cache'[k] # <<>>) =>
                    /\ fetch[k].st = "pending"
                    /\ fetch'[k] = [st |-> "ok", val |-> cache'[k]]
                    /\ \A x \in Kinds \ {k} : cache'[x] = cache[x]
              /\ (fetch[k].st = "pending" /\ fetch'[k].st = "ok") =>
                    cache'[k] = fetch'[k].val
              /\ (fetch[k].st = "pending" /\ fetch'[k].st = "failed") =>
                    cache' = cache
       /\ (cache'["issues"] # cache["issues"] /\ cache'["issues"] # <<>>) =>
              \A x \in IssueStates : sub'[x] = "ok"
       /\ agg.st = "rejected" =>
              \A k \in Kinds : cache[k] # <<>> => fetch[k].st = "ok"]_vars

\* C28: for every snapshot, the computations written inline in the newer
\* dashboard's single view (language distribution, commit-activity window,
\* issue statistics, top labels) give what the helpers of the earlier
\* dashboard give.  (SpecMetrics; does not hold for the issue statistics.)
C28_InlineEqualsHelpers ==
    \A i, j \in 1..Len(calls) :
        (calls[i].out.view = "helpers" /\ calls[j].out.view = "single") =>
            /\ calls[i].out.languages = calls[j].out.languages
            /\ calls[i].out.commits = calls[j].out.commits
            /\ calls[i].out.issues = calls[j].out.issues
            /\ calls[i].out.labels = calls[j].out.labels

\* C29: the weeks the Activity sub-score counts are the last 4 entries of
\* the commit-activity window on display: for every commit-activity list the
\* sum used for Activity equals the sum of the commits of the last
\* min(4, N) window entries.  (SpecDefaults; does not hold.)
C29_ActivityCountsTheWindow ==
    \A i \in 1..Len(calls) :
        LET o       == calls[i].out
            last(w) == SumSeq([k \in 1..Len(w) |-> IF k > Len(w) - 4 THEN w[k].commits ELSE 0])
            score(S) == <<IF 2 * S > 100 THEN 100 ELSE 2 * S, 1>>
        IN  /\ o.view \in {"helpers", "single"} => last(o.commits) = recentCommitsOf(data)
            /\ o.view = "health" =>
                  o.health.metrics.activity = score(last(commitData(data)))

====
